---------------------------- MODULE Spec2Model ----------------------------
(* Meeting-processing pipeline of ai_meetmind: the upload handler, the      *)
(* detached run (processAIAnalysis over processCompleteeMeeting), the task  *)
(* materializer (createTasksFromActionItems) and the failure handler that   *)
(* annotates the meeting record.                                            *)
EXTENDS Integers, Sequences, FiniteSets, TLC

VARIABLES meetings, tasks, runs, trace

vars == <<meetings, tasks, runs, trace>>

(***************************************************************************)
(* Bounds of the model.                                                    *)
(***************************************************************************)
MaxRuns == 2
MaxItems == 2

Runs == 1..MaxRuns

(***************************************************************************)
(* JavaScript values.  A string is a sequence of pieces so that a template *)
(* literal is the concatenation of its parts.                              *)
(***************************************************************************)
Null == [t |-> "null"]
Undefined == [t |-> "undefined"]
Lit(s) == [t |-> "string", v |-> <<s>>]
EmptyString == [t |-> "string", v |-> <<>>]
IsString(x) == x.t = "string"
ToText(x) == IF IsString(x) THEN x.v ELSE <<x.t>>
Template(prefix, x) == [t |-> "string", v |-> <<prefix>> \o ToText(x)]
Falsy(x) == x = Null \/ x = Undefined \/ x = EmptyString
Nullish(x) == x = Null \/ x = Undefined
OrElse(x, d) == IF Falsy(x) THEN d ELSE x

(***************************************************************************)
(* Program constants.                                                      *)
(***************************************************************************)
TASK_STATUS == [PENDING |-> Lit("pending"), IN_PROGRESS |-> Lit("in_progress"),
                DONE |-> Lit("done"), CANCELLED |-> Lit("cancelled")]
TASK_PRIORITY == [LOW |-> Lit("low"), MEDIUM |-> Lit("medium"),
                  HIGH |-> Lit("high"), URGENT |-> Lit("urgent")]
NotSpecified == Lit("Not specified")
DescriptionPrefix == "Auto-generated from meeting action item: "
MarkerPrefix == "AI processing failed: "

Users == {"u1"}
Projects == {"p1"}

(***************************************************************************)
(* AppError(message, statusCode).                                          *)
(***************************************************************************)
AppError(message, statusCode) == [message |-> Lit(message), statusCode |-> statusCode]
NoError == [message |-> Undefined, statusCode |-> 0]


(***************************************************************************)
(* Trace of a run: the calls it started, their returns, its store writes.  *)
(***************************************************************************)
Ev(op, what) == <<op, what>>
Has(tr, e) == \E i \in 1..Len(tr) : tr[i] = e
StageOrder == <<"transcribe", "mom", "extract", "summary", "materialize">>
Stages == {StageOrder[i] : i \in 1..Len(StageOrder)}
\* Calls started and not yet returned (a "fail" is the return of a call that threw).
Outstanding(tr) ==
  Len(SelectSeq(tr, LAMBDA e : e[1] = "call"))
    - Len(SelectSeq(tr, LAMBDA e : e[1] \in {"ret", "fail"}))

(***************************************************************************)
(* State after construction: empty store, no request received yet.         *)
(***************************************************************************)
\* What the chat completion for the extraction prompt brings back: a failure
\* of the call, or a message content together with what JSON.parse and the
\* read of .action_items make of it.
Answer(kind, items) == [kind |-> kind, items |-> items]
NoAnswer == Answer("none", <<>>)

IdleRun ==
  [pc |-> "idle", meetingId |-> 0, projectId |-> "", userId |-> "",
   transcription |-> Undefined, mom |-> Undefined, actionItems |-> <<>>,
   emailSummary |-> Undefined, tasks |-> <<>>, error |-> NoError,
   failedAt |-> "none", resp |-> 0, respCount |-> 0,
   airtableConfigured |-> TRUE, transcriptAtStart |-> Undefined,
   itemsType |-> "array", answer |-> NoAnswer, actionItemsText |-> <<>>,
   taskId |-> 0]

Init ==
  /\ meetings = <<>>
  /\ tasks = <<>>
  /\ runs = [r \in Runs |-> IdleRun]
  /\ trace = [r \in Runs |-> <<>>]

(***************************************************************************)
(* Durable record store (Airtable tables): partial-field update.           *)
(***************************************************************************)
UpdateFields(rec, fields) ==
  [k \in DOMAIN rec |-> IF k \in DOMAIN fields THEN fields[k] ELSE rec[k]]

\* Variant: the update goes to the record created last, whatever id is given.
MeetingsUpdateLatest(id, fields) ==
  meetings' = [meetings EXCEPT ![Len(meetings)] = UpdateFields(@, fields)]

MeetingsUpdate(id, fields) ==
  meetings' = [meetings EXCEPT ![id] = UpdateFields(@, fields)]

(***************************************************************************)
(* POST /api/meetings/upload.                                              *)
(***************************************************************************)
RejectReasons ==
  {"no_file", "missing_fields", "access_denied", "project_not_found",
   "airtable_unconfigured", "upload_failed"}

RejectStatus(reason) ==
  CASE reason \in {"no_file", "missing_fields"} -> 400
    [] reason = "access_denied" -> 403
    [] reason = "project_not_found" -> 404
    [] OTHER -> 500

NewMeeting(project) ==
  [project_id |-> <<project>>, title |-> Lit("title"),
   recording_url |-> Lit("url"), transcript |-> Undefined, mom |-> Undefined,
   action_points |-> Undefined, summary |-> Undefined]

\* Requests are numbered in the order they arrive.
IsNextRequest(r) == IF r = 1 THEN TRUE ELSE runs[r - 1].pc # "idle"

UploadRejected(r) ==
  /\ runs[r].pc = "idle"
  /\ IsNextRequest(r)
  /\ \E reason \in RejectReasons :
       runs' = [runs EXCEPT ![r].pc = "rejected",
                            ![r].resp = RejectStatus(reason),
                            ![r].respCount = @ + 1]
  /\ trace' = [trace EXCEPT ![r] = Append(@, Ev("respond", "error"))]
  /\ UNCHANGED <<meetings, tasks>>

UploadAccepted(r) ==
  /\ runs[r].pc = "idle"
  /\ IsNextRequest(r)
  /\ \E user \in Users, project \in Projects :
       /\ meetings' = Append(meetings, NewMeeting(project))
       /\ runs' = [runs EXCEPT ![r].pc = "transcribing",
                               ![r].meetingId = Len(meetings) + 1,
                               ![r].projectId = project,
                               ![r].userId = user,
                               ![r].resp = 202,
                               ![r].respCount = @ + 1]
  /\ trace' = [trace EXCEPT ![r] =
                 @ \o <<Ev("respond", "accepted"), Ev("call", "transcribe")>>]
  /\ UNCHANGED tasks

(***************************************************************************)
(* The .catch of the detached run: log, then write the failure marker.     *)
(***************************************************************************)
\* Variant: the handler also passes the error on to the error middleware,
\* which answers the request a second time.
CatchHandlerResponds(r, stage, e) ==
  /\ runs' = [runs EXCEPT ![r].pc = "marking", ![r].error = e,
                          ![r].failedAt = stage,
                          ![r].resp = e.statusCode,
                          ![r].respCount = @ + 1]
  /\ trace' = [trace EXCEPT ![r] =
                 @ \o <<Ev("fail", stage), Ev("respond", "error"),
                        Ev("call", "marker")>>]

CatchHandler(r, stage, e) ==
  /\ runs' = [runs EXCEPT ![r].pc = "marking", ![r].error = e,
                          ![r].failedAt = stage]
  /\ trace' = [trace EXCEPT ![r] =
                 @ \o <<Ev("fail", stage), Ev("call", "marker")>>]

\* Variant: the failure write also clears the transcript.
MarkerFieldsClearTranscript(e) ==
  [mom |-> Template(MarkerPrefix, e.message), transcript |-> Undefined]

MarkerFields(e) == [mom |-> Template(MarkerPrefix, e.message)]

\* Variant: after the marker the failure handler starts the analysis again.
MarkerReturnRetries(r) ==
  /\ runs[r].pc = "marking"
  /\ \E ok \in BOOLEAN :
       IF ok
       THEN /\ MeetingsUpdate(runs[r].meetingId, MarkerFields(runs[r].error))
            /\ trace' = [trace EXCEPT ![r] =
                           @ \o <<Ev("ret", "marker"), Ev("write", "marker"),
                                  Ev("call", "transcribe")>>]
            /\ runs' = [runs EXCEPT ![r].pc = "transcribing"]
       ELSE /\ UNCHANGED meetings
            /\ trace' = [trace EXCEPT ![r] = Append(@, Ev("fail", "marker"))]
            /\ runs' = [runs EXCEPT ![r].pc = "failed"]
  /\ UNCHANGED tasks

MarkerReturn(r) ==
  /\ runs[r].pc = "marking"
  /\ runs' = [runs EXCEPT ![r].pc = "failed"]
  /\ \E ok \in BOOLEAN :
       IF ok
       THEN /\ trace' = [trace EXCEPT ![r] =
                           @ \o <<Ev("ret", "marker"), Ev("write", "marker")>>]
            /\ MeetingsUpdate(runs[r].meetingId, MarkerFields(runs[r].error))
       ELSE /\ trace' = [trace EXCEPT ![r] = Append(@, Ev("fail", "marker"))]
            /\ UNCHANGED meetings
  /\ UNCHANGED tasks


(***************************************************************************)
(* Stage adapters of the AI service: what each makes of the provider's     *)
(* answer.  A missing API key throws inside the adapter's own try block    *)
(* and leaves through the same catch as a provider error without response. *)
(***************************************************************************)
RateLimitMessage == "OpenAI API rate limit exceeded. Please try again later."

TranscribeOutcomes == {"ok", "unconfigured", "http429", "http401", "http413", "other"}
CompletionOutcomes == {"ok", "unconfigured", "http429", "other"}
ExtractOutcomes == CompletionOutcomes \cup {"malformed"}

TranscribeError(o) ==
  CASE o = "http429" -> AppError(RateLimitMessage, 429)
    [] o = "http401" -> AppError("OpenAI API authentication failed", 500)
    [] o = "http413" -> AppError("Audio file too large. Maximum size is 25MB.", 400)
    [] OTHER -> AppError("Failed to transcribe audio", 500)

\* Variant: the completion adapters report every failure, a rate limit
\* included, as their generic failure.
StageErrorGenericOnly(o, generic) == AppError(generic, 500)

StageError(o, generic) ==
  IF o = "http429" THEN AppError(RateLimitMessage, 429) ELSE AppError(generic, 500)

MomError(o) == StageError(o, "Failed to generate Minutes of Meeting")
ExtractError(o) == StageError(o, "Failed to extract action items")
SummaryError(o) == StageError(o, "Failed to generate email summary")

StoreError == [message |-> Lit("store request failed"), statusCode |-> 0]

\* What the provider answers for run r (the texts themselves are not modelled).
TranscriptText(r) == [t |-> "string", v |-> <<"transcript", ToString(r)>>]
MomText(r) == [t |-> "string", v |-> <<"minutes", ToString(r)>>]
SummaryText(r) == [t |-> "string", v |-> <<"summary", ToString(r)>>]

(***************************************************************************)
(* Action items as the extractor returns them: parsed JSON, unvalidated.   *)
(***************************************************************************)
Item(task, assignee, deadline, priority) ==
  [task |-> task, assignee |-> assignee, deadline |-> deadline,
   priority |-> priority, category |-> Lit("General")]

ItemTasks == {Lit("send the report"), Lit("review the budget")}
ItemAssignees == {NotSpecified, Lit("Alice"), Undefined}
ItemDeadlines == {NotSpecified, Lit("Friday")}
ItemPriorities == {Undefined, EmptyString, Lit("high")}

ActionItems ==
  {Item(k, a, d, p) : k \in ItemTasks, a \in ItemAssignees,
                      d \in ItemDeadlines, p \in ItemPriorities}

\* The action items of the recording the pipeline runs are fed, in the order
\* they are spoken; the provider reports the first n of them.
SpokenItems ==
  <<Item(Lit("send the report"), Lit("Alice"), Lit("Friday"), Lit("high")),
    Item(Lit("review the budget"), Lit("Bob"), NotSpecified, Undefined)>>

ExtractedLists == {SubSeq(SpokenItems, 1, n) : n \in 0..Len(SpokenItems)}

ListsOver(S) == UNION {[1..n -> S] : n \in 0..MaxItems}

(***************************************************************************)
(* processCompleteeMeeting, one action per await.                          *)
(***************************************************************************)
\* Variant: minutes and extraction, which both read only the transcript, are
\* started together.
TranscribeReturnStartsTwo(r) ==
  /\ runs[r].pc = "transcribing"
  /\ \E o \in TranscribeOutcomes :
       IF o = "ok"
       THEN /\ runs' = [runs EXCEPT ![r].pc = "mom",
                                    ![r].transcription = TranscriptText(r)]
            /\ trace' = [trace EXCEPT ![r] =
                           @ \o <<Ev("ret", "transcribe"), Ev("call", "mom"),
                                  Ev("call", "extract")>>]
       ELSE CatchHandler(r, "transcribe", TranscribeError(o))
  /\ UNCHANGED <<meetings, tasks>>

TranscribeReturn(r) ==
  /\ runs[r].pc = "transcribing"
  /\ \E o \in TranscribeOutcomes :
       IF o = "ok"
       THEN /\ runs' = [runs EXCEPT ![r].pc = "mom",
                                    ![r].transcription = TranscriptText(r)]
            /\ trace' = [trace EXCEPT ![r] =
                           @ \o <<Ev("ret", "transcribe"), Ev("call", "mom")>>]
       ELSE CatchHandler(r, "transcribe", TranscribeError(o))
  /\ UNCHANGED <<meetings, tasks>>

\* Variant: a failed minutes synthesis is logged and the run goes on without
\* minutes.
MomReturnSwallowsFailure(r) ==
  /\ runs[r].pc = "mom"
  /\ \E o \in CompletionOutcomes :
       /\ runs' = [runs EXCEPT ![r].pc = "extracting",
                               ![r].mom = IF o = "ok" THEN MomText(r) ELSE Undefined]
       /\ trace' = [trace EXCEPT ![r] =
                      @ \o <<Ev(IF o = "ok" THEN "ret" ELSE "fail", "mom"),
                             Ev("call", "extract")>>]
  /\ UNCHANGED <<meetings, tasks>>

MomReturn(r) ==
  /\ runs[r].pc = "mom"
  /\ \E o \in CompletionOutcomes :
       IF o = "ok"
       THEN /\ runs' = [runs EXCEPT ![r].pc = "extracting",
                                    ![r].mom = MomText(r)]
            /\ trace' = [trace EXCEPT ![r] =
                           @ \o <<Ev("ret", "mom"), Ev("call", "extract")>>]
       ELSE CatchHandler(r, "mom", MomError(o))
  /\ UNCHANGED <<meetings, tasks>>

\* Answers to the extraction prompt: "ok" is a content whose action_items is
\* an array, "object" one whose action_items is an object that is not an
\* array, "no_action_items" a content without that property, "malformed" a
\* content that is not JSON; the others are failures of the call.
ThrowingAnswers == (ExtractOutcomes \ {"ok"}) \cup {"no_action_items"}

PipelineAnswers ==
  {Answer(o, <<>>) : o \in ExtractOutcomes \ {"ok"}}
    \cup {Answer("ok", items) : items \in ExtractedLists}

\* Variant: a content that cannot be parsed counts as no action items.
extractActionItemsLenient(answer) ==
  IF answer.kind \in ThrowingAnswers \ {"malformed", "no_action_items"}
  THEN [threw |-> TRUE, error |-> ExtractError(answer.kind),
        itemsType |-> "array", items |-> <<>>]
  ELSE [threw |-> FALSE, error |-> NoError,
        itemsType |-> IF answer.kind = "object" THEN "object" ELSE "array",
        items |-> answer.items]

\* JSON.parse(response), then .action_items.length, then return
\* .action_items as it is; whatever throws leaves through the catch block.
extractActionItems(answer) ==
  IF answer.kind \in ThrowingAnswers
  THEN [threw |-> TRUE, error |-> ExtractError(answer.kind),
        itemsType |-> "array", items |-> <<>>]
  ELSE [threw |-> FALSE, error |-> NoError,
        itemsType |-> IF answer.kind = "object" THEN "object" ELSE "array",
        items |-> answer.items]

\* generateEmailSummary: the "Action Items:" section of the prompt it sends,
\* as the lines that join('\n') puts together.
ItemLine(item) ==
  [t |-> "string",
   v |-> <<"- ">> \o ToText(item.task) \o <<" (Assignee: ">>
           \o ToText(item.assignee) \o <<", Deadline: ">>
           \o ToText(item.deadline) \o <<")">>]

NoItemsClause == Lit("No specific action items identified.")

\* Variant: with no action items the section is left empty.
ActionItemsTextOmitsEmpty(itemsType, items) ==
  IF itemsType = "array" /\ Len(items) > 0
  THEN [i \in 1..Len(items) |-> ItemLine(items[i])]
  ELSE <<>>

\* actionItems.length > 0 ? actionItems.map(...).join('\n') : 'No specific ...'
ActionItemsText(itemsType, items) ==
  IF itemsType = "array" /\ Len(items) > 0
  THEN [i \in 1..Len(items) |-> ItemLine(items[i])]
  ELSE <<NoItemsClause>>

\* The answer is the one in flight if the state holds one, any otherwise.
\* When the extractor returns, generateEmailSummary is called and sends its
\* prompt.
ExtractReturn(r) ==
  /\ runs[r].pc = "extracting"
  /\ \E answer \in (IF runs[r].answer = NoAnswer THEN PipelineAnswers
                     ELSE {runs[r].answer}) :
       LET result == extractActionItems(answer)
       IN IF result.threw
          THEN CatchHandler(r, "extract", result.error)
          ELSE /\ runs' = [runs EXCEPT ![r].pc = "summarizing",
                                       ![r].actionItems = result.items,
                                       ![r].itemsType = result.itemsType,
                                       ![r].actionItemsText =
                                          ActionItemsText(result.itemsType,
                                                          result.items)]
               /\ trace' = [trace EXCEPT ![r] =
                              @ \o <<Ev("ret", "extract"), Ev("call", "summary")>>]
  /\ UNCHANGED <<meetings, tasks>>

\* The summary returned, processCompleteeMeeting returns and processAIAnalysis
\* sends the one update that carries transcript, minutes and summary.
SummaryReturn(r) ==
  /\ runs[r].pc = "summarizing"
  /\ \E o \in CompletionOutcomes :
       IF o = "ok"
       THEN /\ runs' = [runs EXCEPT ![r].pc = "persisting",
                                    ![r].emailSummary = SummaryText(r)]
            /\ trace' = [trace EXCEPT ![r] =
                           @ \o <<Ev("ret", "summary"), Ev("call", "persist")>>]
       ELSE CatchHandler(r, "summary", SummaryError(o))
  /\ UNCHANGED <<meetings, tasks>>


(***************************************************************************)
(* Task materializer: createTasksFromActionItems and formatTaskRecord.     *)
(***************************************************************************)
\* Variant: the assignee is stored as extracted, sentinel included.
OwnerOfKeepsSentinel(item) == item.assignee

OwnerOf(item) == IF item.assignee # NotSpecified THEN item.assignee ELSE Null

DeadlineOf(item) == IF item.deadline # NotSpecified THEN item.deadline ELSE Null

\* Variant: the priority is stored as extracted, without a default.
PriorityOfNoDefault(item) == item.priority

PriorityOf(item) == OrElse(item.priority, TASK_PRIORITY.MEDIUM)

StatusAtCreation == TASK_STATUS.PENDING

\* Variant: the description is the task text alone, without the prefix that
\* marks the record as generated from a meeting.
TaskFieldsPlainDescription(item, meetingId, projectId) ==
  [name |-> item.task,
   owner_id |-> OwnerOf(item),
   status |-> StatusAtCreation,
   deadline |-> DeadlineOf(item),
   source_meeting |-> IF meetingId # 0 THEN <<meetingId>> ELSE Undefined,
   team |-> projectId,
   description |-> item.task,
   priority |-> PriorityOf(item)]

TaskFields(item, meetingId, projectId) ==
  [name |-> item.task,
   owner_id |-> OwnerOf(item),
   status |-> StatusAtCreation,
   deadline |-> DeadlineOf(item),
   source_meeting |-> IF meetingId # 0 THEN <<meetingId>> ELSE Undefined,
   team |-> projectId,
   description |-> Template(DescriptionPrefix, item.task),
   priority |-> PriorityOf(item)]

\* Variant: only the first action item is turned into a record.
RecordsForFirstOnly(items, meetingId, projectId) ==
  [i \in 1..1 |-> TaskFields(items[i], meetingId, projectId)]

\* actionItems.map(item => ({fields: ...}))
RecordsFor(items, meetingId, projectId) ==
  [i \in 1..Len(items) |-> TaskFields(items[i], meetingId, projectId)]

\* tasksTable.create(records): the store appends one record per element, in
\* order, and hands each its new id.
CreatedRecords(store, records) ==
  [i \in 1..Len(records) |-> [id |-> Len(store) + i, fields |-> records[i]]]

formatTaskRecord(record) ==
  [id |-> record.id,
   name |-> record.fields.name,
   owner_id |-> record.fields.owner_id,
   status |-> record.fields.status,
   deadline |-> record.fields.deadline,
   source_meeting |-> record.fields.source_meeting,
   team |-> record.fields.team,
   description |-> record.fields.description,
   priority |-> record.fields.priority]

MaterializeOutcomes == {"ok", "unconfigured", "store_error"}

MaterializeError == AppError("Failed to create tasks from action items", 500)

(***************************************************************************)
(* processAIAnalysis after processCompleteeMeeting has returned.           *)
(***************************************************************************)
ResultFields(run) ==
  [transcript |-> run.transcription, mom |-> run.mom,
   summary |-> run.emailSummary]

\* Variant: the tasks are created and linked whatever was extracted.
HasItemsAlways(run) == TRUE

\* aiResults.actionItems && aiResults.actionItems.length > 0
HasItems(run) == run.itemsType = "array" /\ Len(run.actionItems) > 0

PersistReturn(r) ==
  /\ runs[r].pc = "persisting"
  /\ \E ok \in BOOLEAN :
       IF ok
       THEN /\ IF HasItems(runs[r])
               THEN /\ runs' = [runs EXCEPT ![r].pc = "materializing"]
                    /\ trace' = [trace EXCEPT ![r] =
                                   @ \o <<Ev("ret", "persist"), Ev("write", "results"),
                                          Ev("call", "materialize")>>]
               ELSE /\ runs' = [runs EXCEPT ![r].pc = "done"]
                    /\ trace' = [trace EXCEPT ![r] =
                                   @ \o <<Ev("ret", "persist"), Ev("write", "results")>>]
            /\ MeetingsUpdate(runs[r].meetingId, ResultFields(runs[r]))
       ELSE /\ CatchHandler(r, "persist", StoreError)
            /\ UNCHANGED meetings
  /\ UNCHANGED tasks

\* Variant: a run that finds tasks of its meeting in the store takes those
\* for its own and creates none.
MaterializeReturnOncePerMeeting(r) ==
  /\ runs[r].pc = "materializing"
  /\ \E o \in MaterializeOutcomes :
       IF o = "ok"
       THEN LET known == SelectSeq(tasks, LAMBDA t :
                           t.fields.source_meeting = <<runs[r].meetingId>>)
                created == IF Len(known) > 0 THEN <<>>
                           ELSE CreatedRecords(tasks,
                                  RecordsFor(runs[r].actionItems, runs[r].meetingId,
                                             runs[r].projectId))
                mine == IF Len(known) > 0 THEN known ELSE created
            IN /\ tasks' = tasks \o created
               /\ runs' = [runs EXCEPT ![r].pc = "linking",
                             ![r].tasks = [i \in 1..Len(mine) |->
                                             formatTaskRecord(mine[i])]]
               /\ trace' = [trace EXCEPT ![r] =
                              @ \o <<Ev("ret", "materialize"), Ev("write", "tasks"),
                                     Ev("call", "link")>>]
       ELSE /\ CatchHandler(r, "materialize", MaterializeError)
            /\ UNCHANGED tasks
  /\ UNCHANGED meetings

MaterializeReturn(r) ==
  /\ runs[r].pc = "materializing"
  /\ \E o \in MaterializeOutcomes :
       IF o = "ok"
       THEN LET created == CreatedRecords(tasks,
                             RecordsFor(runs[r].actionItems, runs[r].meetingId,
                                        runs[r].projectId))
            IN /\ tasks' = tasks \o created
               /\ runs' = [runs EXCEPT ![r].pc = "linking",
                             ![r].tasks = [i \in 1..Len(created) |->
                                             formatTaskRecord(created[i])]]
               /\ trace' = [trace EXCEPT ![r] =
                              @ \o <<Ev("ret", "materialize"), Ev("write", "tasks"),
                                     Ev("call", "link")>>]
       ELSE /\ CatchHandler(r, "materialize", MaterializeError)
            /\ UNCHANGED tasks
  /\ UNCHANGED meetings

\* Variant: the list names the first tasks of the store.
LinkFieldsFirstTasks(run) == [action_points |-> [i \in 1..Len(run.tasks) |-> i]]

LinkFields(run) == [action_points |-> [i \in 1..Len(run.tasks) |-> run.tasks[i].id]]

\* Variant: the run's task ids are appended to the list a run has already
\* written for the meeting.
LinkReturnMerges(r) ==
  /\ runs[r].pc = "linking"
  /\ \E ok \in BOOLEAN :
       IF ok
       THEN /\ MeetingsUpdate(runs[r].meetingId,
                 [action_points |->
                    (IF \E q \in Runs :
                          /\ runs[q].meetingId = runs[r].meetingId
                          /\ Has(trace[q], Ev("write", "action_points"))
                     THEN meetings[runs[r].meetingId].action_points
                     ELSE <<>>)
                    \o LinkFields(runs[r]).action_points])
            /\ runs' = [runs EXCEPT ![r].pc = "done"]
            /\ trace' = [trace EXCEPT ![r] =
                           @ \o <<Ev("ret", "link"), Ev("write", "action_points")>>]
       ELSE /\ CatchHandler(r, "link", StoreError)
            /\ UNCHANGED meetings
  /\ UNCHANGED tasks

\* Variant: the write of the task-ID list never returns.
LinkReturnHangs(r) ==
  /\ runs[r].pc = "linking"
  /\ FALSE
  /\ UNCHANGED vars

LinkReturn(r) ==
  /\ runs[r].pc = "linking"
  /\ \E ok \in BOOLEAN :
       IF ok
       THEN /\ runs' = [runs EXCEPT ![r].pc = "done"]
            /\ trace' = [trace EXCEPT ![r] =
                           @ \o <<Ev("ret", "link"), Ev("write", "action_points")>>]
            /\ MeetingsUpdate(runs[r].meetingId, LinkFields(runs[r]))
       ELSE /\ CatchHandler(r, "link", StoreError)
            /\ UNCHANGED meetings
  /\ UNCHANGED tasks

(***************************************************************************)
(* The server: any request or pending await may be served next.            *)
(***************************************************************************)
Next ==
  \E r \in Runs :
    \/ UploadRejected(r)
    \/ UploadAccepted(r)
    \/ TranscribeReturn(r)
    \/ MomReturn(r)
    \/ ExtractReturn(r)
    \/ SummaryReturn(r)
    \/ PersistReturn(r)
    \/ MaterializeReturn(r)
    \/ LinkReturn(r)
    \/ MarkerReturn(r)

Spec == Init /\ [][Next]_vars


(***************************************************************************)
(* The materializer on its own: a run that has persisted its results and   *)
(* waits for createTasksFromActionItems, for every list of action items    *)
(* the unvalidated extractor output may hold, over a store that is empty   *)
(* or already holds a task made through POST /api/tasks.                    *)
(***************************************************************************)
UserTask ==
  [id |-> 1,
   fields |-> [name |-> Lit("existing task"), owner_id |-> Lit("u1"),
               status |-> TASK_STATUS.IN_PROGRESS, deadline |-> Undefined,
               source_meeting |-> Undefined, team |-> "p1",
               description |-> Undefined, priority |-> TASK_PRIORITY.LOW]]

MaterializingRun(items) ==
  [IdleRun EXCEPT !.pc = "materializing", !.meetingId = 1, !.projectId = "p1",
                  !.userId = "u1", !.transcription = TranscriptText(1),
                  !.mom = MomText(1), !.actionItems = items,
                  !.emailSummary = SummaryText(1), !.resp = 202,
                  !.respCount = 1]

MaterializingTrace ==
  <<Ev("respond", "accepted"), Ev("call", "transcribe"),
    Ev("ret", "transcribe"), Ev("call", "mom"),
    Ev("ret", "mom"), Ev("call", "extract"),
    Ev("ret", "extract"), Ev("call", "summary"),
    Ev("ret", "summary"), Ev("call", "persist"),
    Ev("ret", "persist"), Ev("write", "results"), Ev("call", "materialize")>>

InitMaterialize ==
  /\ \E items \in ListsOver(ActionItems) :
       /\ Len(items) > 0
       /\ runs = [r \in Runs |-> IF r = 1 THEN MaterializingRun(items) ELSE IdleRun]
  /\ meetings = <<UpdateFields(NewMeeting("p1"), ResultFields(MaterializingRun(<<>>)))>>
  /\ tasks \in {<<>>, <<UserTask>>}
  /\ trace = [r \in Runs |-> IF r = 1 THEN MaterializingTrace ELSE <<>>]

NextMaterialize ==
  \E r \in Runs :
    \/ MaterializeReturn(r)
    \/ LinkReturn(r)
    \/ MarkerReturn(r)

SpecMaterialize == InitMaterialize /\ [][NextMaterialize]_vars


(***************************************************************************)
(* createTasksFromActionItems called on its own (it is exported by the     *)
(* task service): one call after another, each with its own arguments,     *)
(* with the Airtable credentials present or absent.  A call context uses   *)
(* a run record: actionItems, meetingId and projectId hold the arguments,  *)
(* tasks the returned array, error what was thrown.                        *)
(***************************************************************************)
MeetingIds == {1, 2}
TeamIds == {"p1", "p2"}
\* The items argument is an array or null: itemsType tells which, and
\* actionItems holds the elements of an array.
ArgumentTypes == {"array", "null"}

InitCreateTasks ==
  /\ meetings = <<NewMeeting("p1"), NewMeeting("p2")>>
  /\ tasks \in {<<>>, <<UserTask>>}
  /\ runs = [r \in Runs |-> IdleRun]
  /\ trace = [r \in Runs |-> <<>>]

IsNextCall(r) ==
  IF r = 1 THEN TRUE ELSE runs[r - 1].pc \in {"returned", "thrown"}

CreateTasksCall(r) ==
  /\ runs[r].pc = "idle"
  /\ IsNextCall(r)
  /\ \E type \in ArgumentTypes, list \in ExtractedLists, m \in MeetingIds,
        p \in TeamIds, configured \in BOOLEAN :
       runs' = [runs EXCEPT ![r].pc = "createTasks",
                            ![r].itemsType = type,
                            ![r].actionItems = IF type = "array" THEN list ELSE <<>>,
                            ![r].meetingId = m,
                            ![r].projectId = p,
                            ![r].airtableConfigured = configured]
  /\ trace' = [trace EXCEPT ![r] = Append(@, Ev("call", "materialize"))]
  /\ UNCHANGED <<meetings, tasks>>

\* !actionItems || actionItems.length === 0
NoItems(run) == run.itemsType = "null" \/ Len(run.actionItems) = 0

Throws(r, e) ==
  /\ runs' = [runs EXCEPT ![r].pc = "thrown", ![r].error = e]
  /\ trace' = [trace EXCEPT ![r] = Append(@, Ev("fail", "materialize"))]
  /\ UNCHANGED tasks

\* Variant: no early return for a missing or empty array; mapping over null
\* throws inside the try block.
CreateTasksReturnNoGuard(r) ==
  /\ runs[r].pc = "createTasks"
  /\ IF ~runs[r].airtableConfigured \/ runs[r].itemsType = "null"
     THEN Throws(r, MaterializeError)
     ELSE \E stored \in BOOLEAN :
            IF stored
            THEN LET created == CreatedRecords(tasks,
                                  RecordsFor(runs[r].actionItems, runs[r].meetingId,
                                             runs[r].projectId))
                 IN /\ tasks' = tasks \o created
                    /\ runs' = [runs EXCEPT ![r].pc = "returned",
                                  ![r].tasks = [i \in 1..Len(created) |->
                                                  formatTaskRecord(created[i])]]
                    /\ trace' = [trace EXCEPT ![r] =
                                   @ \o <<Ev("ret", "materialize"),
                                          Ev("write", "tasks")>>]
            ELSE Throws(r, MaterializeError)
  /\ UNCHANGED meetings

\* Variant: a call whose records are already stored (same meeting, same
\* fields) returns the stored records instead of creating new ones.
CreateTasksReturnOnce(r) ==
  /\ runs[r].pc = "createTasks"
  /\ IF ~runs[r].airtableConfigured
     THEN Throws(r, MaterializeError)
     ELSE IF NoItems(runs[r])
     THEN /\ runs' = [runs EXCEPT ![r].pc = "returned", ![r].tasks = <<>>]
          /\ trace' = [trace EXCEPT ![r] = Append(@, Ev("ret", "materialize"))]
          /\ UNCHANGED tasks
     ELSE LET records == RecordsFor(runs[r].actionItems, runs[r].meetingId,
                                    runs[r].projectId)
              stored == SelectSeq(tasks, LAMBDA t :
                          \E i \in 1..Len(records) : t.fields = records[i])
          IN IF Len(stored) > 0
             THEN /\ runs' = [runs EXCEPT ![r].pc = "returned",
                                ![r].tasks = [i \in 1..Len(stored) |->
                                                formatTaskRecord(stored[i])]]
                  /\ trace' = [trace EXCEPT ![r] =
                                 Append(@, Ev("ret", "materialize"))]
                  /\ UNCHANGED tasks
             ELSE LET created == CreatedRecords(tasks, records)
                  IN /\ tasks' = tasks \o created
                     /\ runs' = [runs EXCEPT ![r].pc = "returned",
                                   ![r].tasks = [i \in 1..Len(created) |->
                                                   formatTaskRecord(created[i])]]
                     /\ trace' = [trace EXCEPT ![r] =
                                    @ \o <<Ev("ret", "materialize"),
                                           Ev("write", "tasks")>>]
  /\ UNCHANGED meetings

CreateTasksReturn(r) ==
  /\ runs[r].pc = "createTasks"
  /\ IF ~runs[r].airtableConfigured
     THEN Throws(r, MaterializeError)
     ELSE IF NoItems(runs[r])
     THEN /\ runs' = [runs EXCEPT ![r].pc = "returned", ![r].tasks = <<>>]
          /\ trace' = [trace EXCEPT ![r] = Append(@, Ev("ret", "materialize"))]
          /\ UNCHANGED tasks
     ELSE \E stored \in BOOLEAN :
            IF stored
            THEN LET created == CreatedRecords(tasks,
                                  RecordsFor(runs[r].actionItems, runs[r].meetingId,
                                             runs[r].projectId))
                 IN /\ tasks' = tasks \o created
                    /\ runs' = [runs EXCEPT ![r].pc = "returned",
                                  ![r].tasks = [i \in 1..Len(created) |->
                                                  formatTaskRecord(created[i])]]
                    /\ trace' = [trace EXCEPT ![r] =
                                   @ \o <<Ev("ret", "materialize"),
                                          Ev("write", "tasks")>>]
            ELSE Throws(r, MaterializeError)
  /\ UNCHANGED meetings

NextCreateTasks ==
  \E r \in Runs :
    \/ CreateTasksCall(r)
    \/ CreateTasksReturn(r)

SpecCreateTasks == InitCreateTasks /\ [][NextCreateTasks]_vars


(***************************************************************************)
(* Several runs for one meeting: processAIAnalysis takes the meeting id as *)
(* a parameter and is started here, with the failure handler of the upload *)
(* route attached, more than once for a meeting record that exists.  The   *)
(* upload route itself starts one run per record it creates; what guards   *)
(* the record against a second run is what this specification examines.   *)
(***************************************************************************)
\* The runs that are started for the one meeting.
RacingRuns == {1, 2}

InitSameMeeting ==
  /\ meetings = <<NewMeeting("p1")>>
  /\ tasks = <<>>
  /\ runs = [r \in Runs |-> IdleRun]
  /\ trace = [r \in Runs |-> <<>>]

StartAnalysis(r) ==
  /\ runs[r].pc = "idle"
  /\ r \in RacingRuns
  /\ IsNextRequest(r)
  /\ runs' = [runs EXCEPT ![r].pc = "transcribing",
                          ![r].meetingId = 1,
                          ![r].projectId = "p1",
                          ![r].userId = "u1",
                          ![r].transcriptAtStart = meetings[1].transcript]
  /\ trace' = [trace EXCEPT ![r] = Append(@, Ev("call", "transcribe"))]
  /\ UNCHANGED <<meetings, tasks>>

NextSameMeeting ==
  \E r \in Runs :
    \/ StartAnalysis(r)
    \/ TranscribeReturn(r)
    \/ MomReturn(r)
    \/ ExtractReturn(r)
    \/ SummaryReturn(r)
    \/ PersistReturn(r)
    \/ MaterializeReturn(r)
    \/ LinkReturn(r)
    \/ MarkerReturn(r)

SpecSameMeeting == InitSameMeeting /\ [][NextSameMeeting]_vars

(***************************************************************************)
(* The same runs when every remote call and every store call returns, with *)
(* a result or an error: a run that waits for a return does not wait       *)
(* forever.  At most one return of a run is pending at a time, and every  *)
(* return moves the run on, so it is a step that changes runs.             *)
(***************************************************************************)
AwaitReturns(r) ==
  \/ TranscribeReturn(r)
  \/ MomReturn(r)
  \/ ExtractReturn(r)
  \/ SummaryReturn(r)
  \/ PersistReturn(r)
  \/ MaterializeReturn(r)
  \/ LinkReturn(r)
  \/ MarkerReturn(r)

SpecEveryCallReturns ==
  /\ InitSameMeeting
  /\ [][NextSameMeeting]_vars
  /\ \A r \in RacingRuns : WF_runs(AwaitReturns(r))


(***************************************************************************)
(* The extractor on unvalidated provider output: a run that waits for the  *)
(* completion of the extraction prompt, the answer being in flight, for    *)
(* every kind of answer and every list of items a parsed content may hold. *)
(***************************************************************************)
AnswerTasks == {Lit("send the report"), EmptyString}
AnswerPriorities == {Lit("high"), Lit("critical"), Undefined}
AnswerItems ==
  {Item(k, Lit("Alice"), NotSpecified, p) : k \in AnswerTasks, p \in AnswerPriorities}

AnyAnswers ==
  PipelineAnswers
    \cup {Answer("no_action_items", <<>>), Answer("object", <<>>)}
    \cup {Answer("ok", items) : items \in ListsOver(AnswerItems)}

ExtractingRun(answer) ==
  [IdleRun EXCEPT !.pc = "extracting", !.meetingId = 1, !.projectId = "p1",
                  !.userId = "u1", !.transcription = TranscriptText(1),
                  !.mom = MomText(1), !.resp = 202, !.respCount = 1,
                  !.answer = answer]

ExtractingTrace ==
  <<Ev("respond", "accepted"), Ev("call", "transcribe"),
    Ev("ret", "transcribe"), Ev("call", "mom"),
    Ev("ret", "mom"), Ev("call", "extract")>>

InitExtract ==
  /\ \E answer \in AnyAnswers :
       runs = [r \in Runs |-> IF r = 1 THEN ExtractingRun(answer) ELSE IdleRun]
  /\ meetings = <<NewMeeting("p1")>>
  /\ tasks = <<>>
  /\ trace = [r \in Runs |-> IF r = 1 THEN ExtractingTrace ELSE <<>>]

NextExtract ==
  \E r \in Runs :
    \/ ExtractReturn(r)
    \/ SummaryReturn(r)
    \/ PersistReturn(r)
    \/ MaterializeReturn(r)
    \/ LinkReturn(r)
    \/ MarkerReturn(r)

SpecExtract == InitExtract /\ [][NextExtract]_vars


(***************************************************************************)
(* The four stage adapters called on their own, one call after another,    *)
(* the provider's answer to each call being in flight.  For the completion *)
(* adapters "other" stands for every provider error that is not a 429.     *)
(***************************************************************************)
AdapterStages == {"transcribe", "mom", "extract", "summary"}

OutcomesOf(stage) ==
  CASE stage = "transcribe" -> TranscribeOutcomes
    [] stage = "extract" -> ExtractOutcomes
    [] OTHER -> CompletionOutcomes

ErrorOf(stage, o) ==
  CASE stage = "transcribe" -> TranscribeError(o)
    [] stage = "mom" -> MomError(o)
    [] stage = "extract" -> extractActionItems(Answer(o, <<>>)).error
    [] OTHER -> SummaryError(o)

CalledStage(r) == trace[r][1][2]

AdapterCall(r) ==
  /\ runs[r].pc = "idle"
  /\ IsNextCall(r)
  /\ \E stage \in AdapterStages :
       /\ \E o \in OutcomesOf(stage) :
            runs' = [runs EXCEPT ![r].pc = "adapter",
                                 ![r].answer = Answer(o, <<>>)]
       /\ trace' = [trace EXCEPT ![r] = Append(@, Ev("call", stage))]
  /\ UNCHANGED <<meetings, tasks>>

AdapterReturn(r) ==
  /\ runs[r].pc = "adapter"
  /\ LET stage == CalledStage(r)
         o == runs[r].answer.kind
     IN IF o = "ok"
        THEN /\ runs' = [runs EXCEPT
                   ![r].pc = "returned",
                   ![r].transcription =
                      IF stage = "transcribe" THEN TranscriptText(r) ELSE @,
                   ![r].mom = IF stage = "mom" THEN MomText(r) ELSE @,
                   ![r].emailSummary =
                      IF stage = "summary" THEN SummaryText(r) ELSE @]
             /\ trace' = [trace EXCEPT ![r] = Append(@, Ev("ret", stage))]
        ELSE /\ runs' = [runs EXCEPT ![r].pc = "thrown",
                                     ![r].error = ErrorOf(stage, o)]
             /\ trace' = [trace EXCEPT ![r] = Append(@, Ev("fail", stage))]
  /\ UNCHANGED <<meetings, tasks>>

NextAdapters ==
  \E r \in Runs :
    \/ AdapterCall(r)
    \/ AdapterReturn(r)

SpecAdapters == Init /\ [][NextAdapters]_vars


(***************************************************************************)
(* The task routes and DELETE /api/meetings/:id, one request after         *)
(* another, over a store in which a run for meeting 1 has finished: its    *)
(* two tasks exist, one without owner, and the meeting links to them; a    *)
(* user has added a task of their own.                                     *)
(* Each handler contains awaits (find, then update or destroy); none of    *)
(* the operations changes a task's owner, so the ownership test cannot be  *)
(* overtaken between the two, and a handler is one step here.  A request   *)
(* context uses a run record: userId is the authenticated user, resp the   *)
(* status of the response.                                                 *)
(***************************************************************************)
TaskUsers == {"u1", "u2"}

FinishedItems ==
  <<Item(Lit("send the report"), NotSpecified, Lit("Friday"), Lit("high")),
    Item(Lit("review the budget"), Lit("Alice"), NotSpecified, Undefined)>>

FinishedRun ==
  [IdleRun EXCEPT !.meetingId = 1, !.projectId = "p1",
                  !.transcription = TranscriptText(1), !.mom = MomText(1),
                  !.emailSummary = SummaryText(1)]

\* createTask(taskData): the fields of the record it creates.
CreateTaskFields(taskData) ==
  [name |-> taskData.name,
   owner_id |-> taskData.owner_id,
   status |-> OrElse(taskData.status, TASK_STATUS.PENDING),
   deadline |-> taskData.deadline,
   source_meeting |-> Undefined,
   team |-> taskData.team,
   description |-> taskData.description,
   priority |-> OrElse(taskData.priority, TASK_PRIORITY.MEDIUM)]

\* What POST /api/tasks hands to createTask.
TaskData(user, name, priority, assignee) ==
  [name |-> name, description |-> Undefined, deadline |-> Undefined,
   priority |-> priority, team |-> "p1",
   owner_id |-> OrElse(assignee, Lit(user)), status |-> Undefined]

InitTasks ==
  /\ tasks = Append(CreatedRecords(<<>>, RecordsFor(FinishedItems, 1, "p1")),
                    [id |-> 3,
                     fields |-> CreateTaskFields(
                       TaskData("u1", Lit("write tests"), Undefined, Undefined))])
  /\ meetings =
       <<UpdateFields(UpdateFields(NewMeeting("p1"), ResultFields(FinishedRun)),
                      [action_points |-> <<1, 2>>])>>
  /\ runs = [r \in Runs |-> IdleRun]
  /\ trace = [r \in Runs |-> <<>>]

\* table.destroy([id]): the record is gone, its id is not given out again.
Destroyed(id) == [id |-> id, destroyed |-> TRUE]
Stored(store, id) ==
  IF id \in 1..Len(store) THEN "destroyed" \notin DOMAIN store[id] ELSE FALSE

Handled(r, user, op, id, status) ==
  /\ runs' = [runs EXCEPT ![r].pc = "handled", ![r].userId = user,
                          ![r].taskId = id,
                          ![r].resp = status, ![r].respCount = 1]
  /\ trace' = [trace EXCEPT ![r] =
                 <<Ev("call", op),
                   Ev("respond", IF status < 400 THEN "ok" ELSE "error")>>]

ValidStatuses == {Lit("pending"), Lit("in_progress"), Lit("done"), Lit("cancelled")}
ValidPriorities == {Lit("low"), Lit("medium"), Lit("high"), Lit("urgent")}

\* Variant: any status passes.
ValidStatusAny(status) == TRUE

\* validStatuses.includes(status)
ValidStatus(status) == status \in ValidStatuses

\* validPriorities.includes(updates.priority)
ValidPriority(priority) == priority \in ValidPriorities

\* What a client may send.
RequestedNames == {Undefined, Lit("write tests")}
RequestedPriorities == {Undefined, Lit("urgent"), Lit("critical")}
RequestedStatuses == {Undefined, Lit("done"), Lit("archived")}
RequestedAssignees == {Undefined, Lit("u2")}
RequestedIds == 1..4

\* POST /api/tasks
PostTask(r) ==
  /\ runs[r].pc = "idle"
  /\ IsNextRequest(r)
  /\ \E user \in TaskUsers, name \in RequestedNames,
        priority \in RequestedPriorities, assignee \in RequestedAssignees,
        stored \in BOOLEAN :
       IF Falsy(name)
       THEN /\ Handled(r, user, "POST /api/tasks", 0, 400)
            /\ UNCHANGED tasks
       ELSE IF stored
       THEN /\ tasks' = Append(tasks,
                  [id |-> Len(tasks) + 1,
                   fields |-> CreateTaskFields(
                     TaskData(user, name, priority, assignee))])
            /\ Handled(r, user, "POST /api/tasks", 0, 201)
       ELSE /\ Handled(r, user, "POST /api/tasks", 0, 500)
            /\ UNCHANGED tasks
  /\ UNCHANGED meetings

\* Variant: the owner test is left out.
MayModifyAnyone(store, id, user) == Stored(store, id)

\* tasksTable.find(taskId), then task.fields.owner_id !== userId
MayModify(store, id, user) ==
  IF Stored(store, id) THEN store[id].fields.owner_id = Lit(user) ELSE FALSE

\* updateTaskStatus(taskId, status, userId): the store it leaves; the store
\* is unchanged exactly when the call throws.
updateTaskStatus(store, id, status, user, stored) ==
  IF MayModify(store, id, user) /\ stored
  THEN [store EXCEPT ![id].fields.status = status]
  ELSE store

\* PATCH /api/tasks/:id/status
PatchTaskStatus(r) ==
  /\ runs[r].pc = "idle"
  /\ IsNextRequest(r)
  /\ \E user \in TaskUsers, id \in RequestedIds, status \in RequestedStatuses,
        stored \in BOOLEAN :
       IF Falsy(status) \/ ~ValidStatus(status)
       THEN /\ Handled(r, user, "PATCH /api/tasks/:id/status", id, 400)
            /\ UNCHANGED tasks
       ELSE /\ tasks' = updateTaskStatus(tasks, id, status, user, stored)
            /\ Handled(r, user, "PATCH /api/tasks/:id/status", id,
                       IF MayModify(tasks, id, user) /\ stored THEN 200 ELSE 500)
  /\ UNCHANGED meetings

\* updateTask: if (updates.x) updateFields[x] = updates.x
UpdateFieldsOf(updates) ==
  [k \in {f \in DOMAIN updates : ~Falsy(updates[f])} |-> updates[k]]

\* PUT /api/tasks/:id
PutTask(r) ==
  /\ runs[r].pc = "idle"
  /\ IsNextRequest(r)
  /\ \E user \in TaskUsers, id \in RequestedIds, status \in RequestedStatuses,
        priority \in RequestedPriorities, stored \in BOOLEAN :
       LET updates == [name |-> Lit("renamed"), status |-> status,
                       priority |-> priority]
       IN IF \/ (~Falsy(status) /\ ~ValidStatus(status))
             \/ (~Falsy(priority) /\ ~ValidPriority(priority))
          THEN /\ Handled(r, user, "PUT /api/tasks/:id", id, 400)
               /\ UNCHANGED tasks
          ELSE IF MayModify(tasks, id, user) /\ stored
          THEN /\ tasks' = [tasks EXCEPT ![id].fields =
                              UpdateFields(@, UpdateFieldsOf(updates))]
               /\ Handled(r, user, "PUT /api/tasks/:id", id, 200)
          ELSE /\ Handled(r, user, "PUT /api/tasks/:id", id, 500)
               /\ UNCHANGED tasks
  /\ UNCHANGED meetings

\* DELETE /api/tasks/:id
DeleteTask(r) ==
  /\ runs[r].pc = "idle"
  /\ IsNextRequest(r)
  /\ \E user \in TaskUsers, id \in RequestedIds, stored \in BOOLEAN :
       IF MayModify(tasks, id, user) /\ stored
       THEN /\ tasks' = [tasks EXCEPT ![id] = Destroyed(id)]
            /\ Handled(r, user, "DELETE /api/tasks/:id", id, 200)
       ELSE /\ Handled(r, user, "DELETE /api/tasks/:id", id, 500)
            /\ UNCHANGED tasks
  /\ UNCHANGED meetings

\* The loop of PATCH /api/tasks/bulk/status: updateTaskStatus for each id in
\* turn, a failure being collected and the loop going on.
RECURSIVE BulkUpdate(_, _, _, _, _)
BulkUpdate(store, ids, status, user, stored) ==
  IF ids = <<>> THEN store
  ELSE BulkUpdate(updateTaskStatus(store, Head(ids), status, user, stored),
                  Tail(ids), status, user, stored)

RequestedIdLists == {<<>>, <<1, 2>>, <<3, 1>>, <<4, 3>>}

\* PATCH /api/tasks/bulk/status
BulkStatus(r) ==
  /\ runs[r].pc = "idle"
  /\ IsNextRequest(r)
  /\ \E user \in TaskUsers, ids \in RequestedIdLists,
        status \in RequestedStatuses, stored \in BOOLEAN :
       IF ids = <<>> \/ Falsy(status) \/ ~ValidStatus(status)
       THEN /\ Handled(r, user, "PATCH /api/tasks/bulk/status", 0, 400)
            /\ UNCHANGED tasks
       ELSE /\ tasks' = BulkUpdate(tasks, ids, status, user, stored)
            /\ Handled(r, user, "PATCH /api/tasks/bulk/status", 0, 200)
  /\ UNCHANGED meetings

\* Variant: the meeting's tasks are destroyed with it.
DeleteMeetingCascades(r) ==
  /\ runs[r].pc = "idle"
  /\ IsNextRequest(r)
  /\ \E user \in TaskUsers, id \in 1..Len(meetings) :
       /\ Stored(meetings, id)
       /\ meetings' = [meetings EXCEPT ![id] = Destroyed(id)]
       /\ tasks' = [i \in 1..Len(tasks) |->
                     IF i \in {1, 2} THEN Destroyed(i) ELSE tasks[i]]
       /\ Handled(r, user, "DELETE /api/meetings/:id", 0, 200)

\* DELETE /api/meetings/:id: find, access test against the project, destroy.
DeleteMeeting(r) ==
  /\ runs[r].pc = "idle"
  /\ IsNextRequest(r)
  /\ \E user \in TaskUsers, id \in 1..Len(meetings), allowed \in BOOLEAN,
        stored \in BOOLEAN :
       IF ~Stored(meetings, id)
       THEN /\ Handled(r, user, "DELETE /api/meetings/:id", 0, 404)
            /\ UNCHANGED meetings
       ELSE IF ~allowed
       THEN /\ Handled(r, user, "DELETE /api/meetings/:id", 0, 403)
            /\ UNCHANGED meetings
       ELSE IF stored
       THEN /\ meetings' = [meetings EXCEPT ![id] = Destroyed(id)]
            /\ Handled(r, user, "DELETE /api/meetings/:id", 0, 200)
       ELSE /\ Handled(r, user, "DELETE /api/meetings/:id", 0, 500)
            /\ UNCHANGED meetings
  /\ UNCHANGED tasks

NextTasks ==
  \E r \in Runs :
    \/ PostTask(r)
    \/ PatchTaskStatus(r)
    \/ PutTask(r)
    \/ DeleteTask(r)
    \/ BulkStatus(r)
    \/ DeleteMeeting(r)

SpecTasks == InitTasks /\ [][NextTasks]_vars


(***************************************************************************)
(* Reading a meeting record back, as a polling client does.                *)
(***************************************************************************)
MeetingOf(r) == meetings[runs[r].meetingId]
Accepted(r) == runs[r].pc \notin {"idle", "rejected"}
HasMarker(m) ==
  /\ IsString(m.mom)
  /\ Len(m.mom.v) > 0
  /\ m.mom.v[1] = MarkerPrefix
MarkerEvents ==
  {Ev("call", "marker"), Ev("ret", "marker"), Ev("write", "marker"),
   Ev("fail", "marker")}
StepFailedAt(tr, i) == tr[i][1] = "fail" /\ tr[i][2] # "marker"
StageCalls(tr) ==
  SelectSeq(tr, LAMBDA e : e[1] = "call" /\ e[2] \in Stages)
IsPrefixOf(s, t) ==
  /\ Len(s) <= Len(t)
  /\ \A i \in 1..Len(s) : s[i] = t[i]

(***************************************************************************)
(* C1: when transcription succeeds and minutes synthesis fails, the record *)
(* read after the run and its failure handling have finished holds the     *)
(* transcription text (not null) and a failure marker.                     *)
(***************************************************************************)
C1_TranscriptKeptWhenMinutesFail ==
  \A r \in Runs :
    (runs[r].pc = "failed" /\ runs[r].failedAt = "mom") =>
      /\ ~Nullish(MeetingOf(r).transcript)
      /\ MeetingOf(r).transcript = runs[r].transcription
      /\ HasMarker(MeetingOf(r))

(***************************************************************************)
(* C2: whatever step fails, the transcript and the minutes the run had     *)
(* persisted before the failure are still stored unchanged once the        *)
(* failure marker has been written.                                        *)
(***************************************************************************)
C2_PersistedResultsSurviveMarker ==
  \A r \in Runs :
    (Has(trace[r], Ev("write", "results")) /\ Has(trace[r], Ev("write", "marker"))) =>
      /\ MeetingOf(r).transcript = runs[r].transcription
      /\ MeetingOf(r).mom = runs[r].mom

(***************************************************************************)
(* C3: each step's result is written before the next step begins: the      *)
(* transcript is on the record while minutes synthesis is in flight, the   *)
(* minutes are on the record while extraction or summary is in flight.     *)
(***************************************************************************)
C3_EachResultPersistedBeforeNextStep ==
  \A r \in Runs :
    /\ runs[r].pc = "mom" => MeetingOf(r).transcript = runs[r].transcription
    /\ runs[r].pc \in {"extracting", "summarizing"} =>
         /\ MeetingOf(r).transcript = runs[r].transcription
         /\ MeetingOf(r).mom = runs[r].mom

(***************************************************************************)
(* C4: every run that halted on a failed step has left a failure marker on *)
(* its record once its failure handling is over, whichever step failed and *)
(* whatever the store answered to the update calls.                        *)
(***************************************************************************)
C4_HaltedRunLeavesMarker ==
  \A r \in Runs : runs[r].pc = "failed" => HasMarker(MeetingOf(r))

(***************************************************************************)
(* C5: after a step of a run has failed the run starts no further stage,   *)
(* creates no task and writes no result field; the failure marker is the   *)
(* only write that follows.                                                *)
(***************************************************************************)
C5_NothingRunsAfterFailure ==
  \A r \in Runs :
    /\ \A j \in 2..Len(trace[r]) :
         (StepFailedAt(trace[r], j - 1) \/ trace[r][j - 1] \in MarkerEvents) =>
           trace[r][j] \in MarkerEvents
    /\ runs[r].failedAt \in {"transcribe", "mom", "extract", "summary", "persist"} =>
         /\ Nullish(MeetingOf(r).transcript)
         /\ Nullish(MeetingOf(r).summary)
         /\ Nullish(MeetingOf(r).action_points)
         /\ \A i \in 1..Len(tasks) :
              tasks[i].fields.source_meeting # <<runs[r].meetingId>>
    /\ runs[r].failedAt = "materialize" =>
         /\ Nullish(MeetingOf(r).action_points)
         /\ \A i \in 1..Len(tasks) :
              tasks[i].fields.source_meeting # <<runs[r].meetingId>>
    /\ runs[r].failedAt = "link" => Nullish(MeetingOf(r).action_points)

C5_Witness ==
  \E r \in Runs :
    /\ runs[r].pc = "failed"
    /\ runs[r].failedAt = "persist"
    /\ Has(trace[r], Ev("write", "marker"))
    /\ Len(runs[r].actionItems) > 0

(***************************************************************************)
(* C6: an accepted upload is answered 202 before the first AI stage        *)
(* starts, and nothing the run does afterwards changes that response or    *)
(* sends another one.                                                      *)
(***************************************************************************)
C6_AcceptedUploadAnsweredOnce ==
  \A r \in Runs :
    Accepted(r) =>
      /\ runs[r].resp = 202
      /\ runs[r].respCount = 1
      /\ trace[r][1] = Ev("respond", "accepted")
      /\ \A j \in 2..Len(trace[r]) : trace[r][j][1] # "respond"

C6_Witness ==
  \E r \in Runs :
    /\ runs[r].pc = "failed"
    /\ runs[r].error.statusCode = 429
    /\ runs[r].resp = 202

(***************************************************************************)
(* C7: the stages of a run are called one at a time in the order           *)
(* transcribe, minutes, extraction, summary, materialization; a stage is   *)
(* started only after the one before it has returned.                      *)
(***************************************************************************)
C7_StagesSequential ==
  \A r \in Runs :
    /\ Outstanding(trace[r]) <= 1
    /\ IsPrefixOf([i \in 1..Len(StageCalls(trace[r])) |-> StageCalls(trace[r])[i][2]],
                  StageOrder)

C7_Witness ==
  \E r \in Runs :
    /\ runs[r].pc = "done"
    /\ Len(StageCalls(trace[r])) = Len(StageOrder)


(***************************************************************************)
(* C8: a call of createTasksFromActionItems with n >= 1 items that returns *)
(* has appended exactly n task records to the store, the i-th made from    *)
(* the i-th item, and returns exactly those n records; every task that was *)
(* in the store is left as it was, and a call that throws creates none.    *)
(***************************************************************************)
C8_OneTaskPerItemInOrder ==
  [][\A r \in Runs :
       runs[r].pc = "materializing" =>
         LET items == runs[r].actionItems
             n == Len(items)
             base == Len(tasks)
         IN /\ runs'[r].pc = "linking" =>
                 /\ Len(tasks') = base + n
                 /\ SubSeq(tasks', 1, base) = tasks
                 /\ Len(runs'[r].tasks) = n
                 /\ \A i \in 1..n :
                      /\ tasks'[base + i].id = base + i
                      /\ tasks'[base + i].fields.name = items[i].task
                      /\ tasks'[base + i].fields.source_meeting = <<runs[r].meetingId>>
                      /\ runs'[r].tasks[i].id = base + i
                      /\ runs'[r].tasks[i].name = items[i].task
            /\ runs'[r].pc = "marking" => tasks' = tasks]_vars

C8_Witness ==
  \E r \in Runs :
    /\ runs[r].pc = "linking"
    /\ Len(runs[r].actionItems) = 2
    /\ runs[r].actionItems[1].task # runs[r].actionItems[2].task
    /\ Len(tasks) = 3

\* The stored record made from the i-th action item of run r.
TaskOfItem(r, i) == tasks[runs[r].tasks[i].id].fields
Materialized(r) == Has(trace[r], Ev("write", "tasks"))

C10_PendingAndDefaultPriority ==
  \A r \in Runs :
    Materialized(r) =>
      \A i \in 1..Len(runs[r].actionItems) :
        LET item == runs[r].actionItems[i]
            task == TaskOfItem(r, i)
        IN /\ task.status = Lit("pending")
           /\ item.priority \in {Undefined, Null, EmptyString} =>
                task.priority = Lit("medium")
           /\ item.priority \notin {Undefined, Null, EmptyString} =>
                task.priority = item.priority

C10_Witness ==
  \E r \in Runs :
    /\ Materialized(r)
    /\ Len(runs[r].actionItems) = 2
    /\ runs[r].actionItems[1].priority = Undefined
    /\ runs[r].actionItems[2].priority = Lit("high")
    /\ TaskOfItem(r, 1).priority = Lit("medium")
    /\ TaskOfItem(r, 2).priority = Lit("high")


(***************************************************************************)
(* Direct calls of createTasksFromActionItems.                             *)
(***************************************************************************)
\* Records in the store before the first call.
StoreBase == IF Len(tasks) > 0 THEN (IF tasks[1] = UserTask THEN 1 ELSE 0) ELSE 0
RECURSIVE CreatedUpTo(_)
CreatedUpTo(n) == IF n = 0 THEN 0 ELSE Len(runs[n].tasks) + CreatedUpTo(n - 1)
ReturnedIds(r) == {runs[r].tasks[i].id : i \in 1..Len(runs[r].tasks)}
SameArguments(r1, r2) ==
  /\ runs[r1].itemsType = runs[r2].itemsType
  /\ runs[r1].actionItems = runs[r2].actionItems
  /\ runs[r1].meetingId = runs[r2].meetingId
  /\ runs[r1].projectId = runs[r2].projectId
CallOnNoItemsEnds(r) ==
  /\ runs[r].pc = "createTasks"
  /\ NoItems(runs[r])
  /\ runs'[r].pc # "createTasks"

C12_NoItemsReturnsEmpty ==
  [][\A r \in Runs :
       CallOnNoItemsEnds(r) =>
         /\ runs'[r].pc = "returned"
         /\ runs'[r].tasks = <<>>
         /\ runs'[r].error = NoError
         /\ tasks' = tasks]_vars

(***************************************************************************)
(* C12, amended: a call with an empty or null array of action items leaves *)
(* the task store as it was; with the Airtable credentials configured it   *)
(* returns an empty array and throws nothing, and without them it throws   *)
(* "Failed to create tasks from action items" (500), because the           *)
(* configuration check comes before the check for an empty array.          *)
(***************************************************************************)
C12_NoItemsReturnsEmptyWhenConfigured ==
  [][\A r \in Runs :
       CallOnNoItemsEnds(r) =>
         /\ tasks' = tasks
         /\ IF runs[r].airtableConfigured
            THEN /\ runs'[r].pc = "returned"
                 /\ runs'[r].tasks = <<>>
                 /\ runs'[r].error = NoError
            ELSE /\ runs'[r].pc = "thrown"
                 /\ runs'[r].error.message =
                      Lit("Failed to create tasks from action items")
                 /\ runs'[r].error.statusCode = 500]_vars

C12_Witness ==
  /\ tasks = <<UserTask>>
  /\ \E r1, r2 \in Runs :
       /\ runs[r1].pc = "returned" /\ runs[r1].airtableConfigured
       /\ runs[r1].itemsType = "null" /\ runs[r1].tasks = <<>>
       /\ runs[r2].pc = "returned" /\ runs[r2].airtableConfigured
       /\ runs[r2].itemsType = "array" /\ runs[r2].actionItems = <<>>
       /\ runs[r2].tasks = <<>>

(***************************************************************************)
(* C13: createTasksFromActionItems is not idempotent.  Every call that     *)
(* returns for n action items has created n records of its own, whatever   *)
(* the store already held: the store holds what it held before the first   *)
(* call plus one record per item of every returned call, no two calls      *)
(* return the same record, and so k calls with the same items, meeting and *)
(* project that all return leave k*n records.                              *)
(***************************************************************************)
C13_EveryCallCreatesItsOwnRecords ==
  /\ Len(tasks) = StoreBase + CreatedUpTo(MaxRuns)
  /\ \A i \in 1..Len(tasks) : tasks[i].id = i
  /\ \A r \in Runs :
       runs[r].pc = "returned" =>
         /\ Len(runs[r].tasks) =
              (IF NoItems(runs[r]) THEN 0 ELSE Len(runs[r].actionItems))
         /\ ReturnedIds(r) \subseteq (StoreBase + 1)..Len(tasks)
  /\ \A r1, r2 \in Runs :
       r1 # r2 => ReturnedIds(r1) \cap ReturnedIds(r2) = {}

C13_Witness ==
  /\ runs[1].pc = "returned"
  /\ runs[2].pc = "returned"
  /\ SameArguments(1, 2)
  /\ Len(runs[1].actionItems) = 2
  /\ Len(tasks) = StoreBase + 2 * 2
  /\ StoreBase = 1


(***************************************************************************)
(* Runs racing on one meeting.                                             *)
(***************************************************************************)
TasksOfMeeting(m) ==
  {i \in 1..Len(tasks) : tasks[i].fields.source_meeting = <<m>>}
Wrote(r, what) ==
  /\ ~Has(trace[r], Ev("write", what))
  /\ Has(trace'[r], Ev("write", what))
Linked(r) == Has(trace[r], Ev("write", "action_points"))

(***************************************************************************)
(* C14: two runs started for the same meeting each create their own tasks, *)
(* in every interleaving: the tasks that link back to the meeting are one  *)
(* per extracted item of every run that got as far as creating tasks, no   *)
(* task belongs to both runs, and when both runs have succeeded with n     *)
(* items each the store holds 2n tasks linking back to the meeting.        *)
(***************************************************************************)
C14_RacingRunsBothCreateTasks ==
  /\ Cardinality(TasksOfMeeting(1)) = CreatedUpTo(MaxRuns)
  /\ \A r \in Runs :
       Materialized(r) =>
         /\ Len(runs[r].tasks) = Len(runs[r].actionItems)
         /\ ReturnedIds(r) \subseteq TasksOfMeeting(1)
  /\ ReturnedIds(1) \cap ReturnedIds(2) = {}
  /\ (/\ runs[1].pc = "done"
      /\ runs[2].pc = "done"
      /\ Len(runs[1].actionItems) = Len(runs[2].actionItems))
       => Cardinality(TasksOfMeeting(1)) = 2 * Len(runs[1].actionItems)

C14_Witness ==
  /\ runs[1].pc = "done"
  /\ runs[2].pc = "done"
  /\ runs[1].meetingId = runs[2].meetingId
  /\ Len(runs[1].actionItems) = 2
  /\ Len(runs[2].actionItems) = 2
  /\ Cardinality(TasksOfMeeting(1)) = 4

(***************************************************************************)
(* C15: when runs race on one meeting, every write replaces the fields it  *)
(* carries by the writing run's values and leaves the other fields alone,  *)
(* so each field holds what the last run to write it wrote; the task-ID    *)
(* list, once written, is the list of the tasks of one run, never of both. *)
(***************************************************************************)
C15_LastWriterWinsPerField ==
  [][/\ \A r \in Runs :
          /\ Wrote(r, "results") =>
                /\ meetings'[1].transcript = runs[r].transcription
                /\ meetings'[1].mom = runs[r].mom
                /\ meetings'[1].summary = runs[r].emailSummary
                /\ meetings'[1].action_points = meetings[1].action_points
          /\ Wrote(r, "action_points") =>
                /\ meetings'[1].action_points =
                     [i \in 1..Len(runs[r].tasks) |-> runs[r].tasks[i].id]
                /\ meetings'[1].transcript = meetings[1].transcript
                /\ meetings'[1].mom = meetings[1].mom
                /\ meetings'[1].summary = meetings[1].summary
          /\ Wrote(r, "marker") =>
                /\ meetings'[1].mom =
                     [t |-> "string",
                      v |-> <<"AI processing failed: ">> \o runs[r].error.message.v]
                /\ meetings'[1].transcript = meetings[1].transcript
                /\ meetings'[1].summary = meetings[1].summary
                /\ meetings'[1].action_points = meetings[1].action_points
     /\ (\A r \in Runs, what \in {"results", "action_points", "marker"} :
           ~Wrote(r, what)) => meetings' = meetings
     /\ (\E r \in Runs : Has(trace'[r], Ev("write", "action_points"))) =>
           \E r \in Runs :
             /\ Has(trace'[r], Ev("write", "action_points"))
             /\ meetings'[1].action_points =
                  [i \in 1..Len(runs'[r].tasks) |-> runs'[r].tasks[i].id]]_vars

C15_Witness ==
  \E r1, r2 \in Runs :
    /\ r1 # r2
    /\ runs[r1].pc = "done" /\ Linked(r1)
    /\ runs[r2].pc = "done" /\ Linked(r2)
    /\ Len(tasks) = 4
    /\ meetings[1].action_points = <<1, 2>>
    /\ ReturnedIds(r1) = {1, 2}
    /\ ReturnedIds(r2) = {3, 4}
    /\ meetings[1].transcript = runs[r2].transcription
    /\ meetings[1].transcript # runs[r1].transcription

(***************************************************************************)
(* C16: runs for different meetings do not touch each other's records.     *)
(* Under every interleaving the record of a run's meeting holds what that  *)
(* run alone has written (its results once persisted, its own task ids     *)
(* once linked, its own marker once marked) and nothing else, every task   *)
(* the run created links back to its own meeting only, and no two runs     *)
(* share a meeting.                                                        *)
(***************************************************************************)
C16_RunsOnDifferentMeetingsIndependent ==
  \A r \in Runs :
    Accepted(r) =>
      LET run == runs[r]
          m == meetings[run.meetingId]
          persisted == Has(trace[r], Ev("write", "results"))
          marked == Has(trace[r], Ev("write", "marker"))
      IN /\ m.transcript = (IF persisted THEN run.transcription ELSE Undefined)
         /\ m.summary = (IF persisted THEN run.emailSummary ELSE Undefined)
         /\ m.mom = (IF marked
                     THEN [t |-> "string",
                           v |-> <<"AI processing failed: ">> \o run.error.message.v]
                     ELSE IF persisted THEN run.mom ELSE Undefined)
         /\ IF Linked(r)
            THEN m.action_points = [i \in 1..Len(run.tasks) |-> run.tasks[i].id]
            ELSE m.action_points = Undefined
         /\ m.project_id = <<run.projectId>>
         /\ \A i \in 1..Len(run.tasks) :
              tasks[run.tasks[i].id].fields.source_meeting = <<run.meetingId>>
         /\ \A q \in Runs :
              (q # r /\ Accepted(q)) => runs[q].meetingId # run.meetingId

C16_Witness ==
  /\ runs[1].pc = "done"
  /\ runs[2].pc = "failed"
  /\ runs[1].meetingId = 1
  /\ runs[2].meetingId = 2
  /\ Linked(1)
  /\ runs[2].failedAt = "link"
  /\ meetings[1].action_points = <<3, 4>>
  /\ ReturnedIds(2) = {1, 2}
  /\ meetings[1].transcript = TranscriptText(1)
  /\ meetings[2].transcript = TranscriptText(2)

(***************************************************************************)
(* C17: a run never retries.  Each of the four AI stages and the task      *)
(* materialization is called at most once in a run; a run whose failure    *)
(* handler is at work starts no stage; and a run that has failed takes no  *)
(* further step at all.                                                    *)
(***************************************************************************)
C17_NoRetry ==
  [][\A r \in Runs :
       /\ \A s \in Stages :
            Len(SelectSeq(trace'[r], LAMBDA e : e = Ev("call", s))) <= 1
       /\ runs[r].pc = "marking" => StageCalls(trace'[r]) = StageCalls(trace[r])
       /\ runs[r].pc = "failed" =>
            /\ runs'[r] = runs[r]
            /\ trace'[r] = trace[r]]_vars

C17_Witness ==
  /\ runs[1].pc = "failed"
  /\ runs[1].failedAt = "extract"
  /\ StageCalls(trace[1]) =
       <<Ev("call", "transcribe"), Ev("call", "mom"), Ev("call", "extract")>>
  /\ runs[2].pc = "done"
  /\ StageCalls(trace[2]) =
       <<Ev("call", "transcribe"), Ev("call", "mom"), Ev("call", "extract"),
         Ev("call", "summary"), Ev("call", "materialize")>>

Extracted(r) == Has(trace[r], Ev("ret", "extract"))
ExtractFailed(r) == Has(trace[r], Ev("fail", "extract"))
Unparseable(answer) == answer.kind \in {"malformed", "no_action_items"}

C19_WitnessEmpty ==
  \E r \in Runs :
    /\ runs[r].answer = Answer("ok", <<>>)
    /\ runs[r].pc = "done"
    /\ runs[r].actionItems = <<>>

(***************************************************************************)
(* C20: every item of a list that extractActionItems returns has a         *)
(* non-empty task text and a priority that is one of low, medium, high,    *)
(* urgent; an answer holding an item without them is not returned.         *)
(***************************************************************************)
C20_ReturnedItemsAreValid ==
  \A r \in Runs :
    Extracted(r) =>
      /\ runs[r].itemsType = "array"
      /\ \A i \in 1..Len(runs[r].actionItems) :
           /\ IsString(runs[r].actionItems[i].task)
           /\ runs[r].actionItems[i].task # EmptyString
           /\ runs[r].actionItems[i].priority \in
                {Lit("low"), Lit("medium"), Lit("high"), Lit("urgent")}


(***************************************************************************)
(* C21: in each of the four stage adapters a provider 429 is thrown to the *)
(* caller as the rate-limit failure with status 429 and nothing is         *)
(* returned in its place; in transcribeAudio a provider 401 is thrown as   *)
(* a failure with status 500 and a 413 as the audio-too-large failure;     *)
(* every other provider error is thrown as the stage's generic failure.    *)
(***************************************************************************)
C21_ProviderErrorsMapped ==
  \A r \in Runs :
    runs[r].pc \in {"returned", "thrown"} =>
      LET stage == CalledStage(r)
          o == runs[r].answer.kind
          generic == CASE stage = "transcribe" -> "Failed to transcribe audio"
                       [] stage = "mom" -> "Failed to generate Minutes of Meeting"
                       [] stage = "extract" -> "Failed to extract action items"
                       [] OTHER -> "Failed to generate email summary"
      IN /\ o # "ok" =>
              /\ runs[r].pc = "thrown"
              /\ runs[r].transcription = Undefined
              /\ runs[r].mom = Undefined
              /\ runs[r].emailSummary = Undefined
              /\ runs[r].actionItems = <<>>
              /\ ~Has(trace[r], Ev("ret", stage))
         /\ o = "http429" =>
              /\ runs[r].error.statusCode = 429
              /\ runs[r].error.message =
                   Lit("OpenAI API rate limit exceeded. Please try again later.")
         /\ (stage = "transcribe" /\ o = "http401") =>
              /\ runs[r].error.statusCode = 500
              /\ runs[r].error.message = Lit("OpenAI API authentication failed")
         /\ (stage = "transcribe" /\ o = "http413") =>
              /\ runs[r].error.statusCode = 400
              /\ runs[r].error.message =
                   Lit("Audio file too large. Maximum size is 25MB.")
         /\ ((o \notin {"ok", "http429"})
               /\ ~(stage = "transcribe" /\ o \in {"http401", "http413"})) =>
              /\ runs[r].error.statusCode = 500
              /\ runs[r].error.message = Lit(generic)

C21_Witness ==
  /\ runs[1].pc = "thrown"
  /\ CalledStage(1) = "summary"
  /\ runs[1].answer.kind = "http429"
  /\ runs[1].error.statusCode = 429
  /\ runs[2].pc = "thrown"
  /\ CalledStage(2) = "transcribe"
  /\ runs[2].answer.kind = "http413"


(***************************************************************************)
(* C22: the "Action Items" section that generateEmailSummary puts in the   *)
(* prompt is never empty: with no action items it is the clause "No        *)
(* specific action items identified.", and with n >= 1 items it is n       *)
(* lines, the i-th carrying the task, the assignee and the deadline of the *)
(* i-th item.                                                              *)
(***************************************************************************)
C22_ActionItemSectionNeverOmitted ==
  \A r \in Runs :
    Has(trace[r], Ev("call", "summary")) =>
      LET section == runs[r].actionItemsText
          items == runs[r].actionItems
      IN /\ Len(section) >= 1
         /\ (runs[r].itemsType = "array" /\ items = <<>>) =>
              section = <<Lit("No specific action items identified.")>>
         /\ (runs[r].itemsType = "array" /\ items # <<>>) =>
              /\ Len(section) = Len(items)
              /\ \A i \in 1..Len(items) :
                   section[i].v =
                     <<"- ">> \o items[i].task.v \o <<" (Assignee: ">>
                       \o items[i].assignee.v \o <<", Deadline: ">>
                       \o items[i].deadline.v \o <<")">>

C22_Witness ==
  \E r \in Runs :
    /\ runs[r].pc = "summarizing"
    /\ Len(runs[r].actionItems) = 2
    /\ runs[r].actionItemsText =
         <<[t |-> "string",
            v |-> <<"- ", "send the report", " (Assignee: ", "Alice",
                    ", Deadline: ", "Friday", ")">>],
           [t |-> "string",
            v |-> <<"- ", "review the budget", " (Assignee: ", "Bob",
                    ", Deadline: ", "Not specified", ")">>]>>

C22_WitnessEmpty ==
  \E r \in Runs :
    /\ runs[r].pc = "summarizing"
    /\ runs[r].itemsType = "array"
    /\ runs[r].actionItems = <<>>
    /\ runs[r].actionItemsText = <<NoItemsClause>>


(***************************************************************************)
(* Task routes and meeting deletion.                                       *)
(***************************************************************************)
Request(r, op) ==
  /\ runs[r].pc = "idle"
  /\ runs'[r].pc = "handled"
  /\ trace'[r][1] = Ev("call", op)

DidRequest(r, op, status) ==
  /\ runs[r].pc = "handled"
  /\ trace[r][1] = Ev("call", op)
  /\ runs[r].resp = status

\* C23: a step that deletes a meeting removes the meeting record only: every
\* task record, those that refer back to the meeting included, is still
\* stored afterwards with the fields it had.
C23_DeleteMeetingKeepsTasks ==
  [][\A m \in 1..Len(meetings) :
       (Stored(meetings, m) /\ ~Stored(meetings', m))
         => /\ tasks' = tasks
            /\ \A n \in 1..Len(meetings) : n # m => meetings'[n] = meetings[n]]_vars

\* A meeting has been deleted and the tasks made from it are stored, still
\* referring to it.
C23_Witness ==
  /\ ~Stored(meetings, 1)
  /\ \E r \in Runs : DidRequest(r, "DELETE /api/meetings/:id", 200)
  /\ \A i \in {1, 2} :
       /\ Stored(tasks, i)
       /\ tasks[i].fields.source_meeting = <<1>>

\* C24: every stored task has one of the four statuses, whatever requests
\* were made after the pipeline created its tasks.
C24_StatusAlwaysValid ==
  \A i \in 1..Len(tasks) :
    Stored(tasks, i) => tasks[i].fields.status \in ValidStatuses

\* A status update with an unknown status was refused, and one with a known
\* status was stored.
C24_Witness ==
  /\ \E r \in Runs : DidRequest(r, "PATCH /api/tasks/:id/status", 400)
  /\ \E r \in Runs : DidRequest(r, "PATCH /api/tasks/:id/status", 200)
  /\ \E i \in 1..Len(tasks) :
       Stored(tasks, i) /\ tasks[i].fields.status = Lit("done")

\* C25: every stored task has one of the four priorities.  POST /api/tasks
\* hands req.body.priority to createTask unexamined, so this fails.
C25_PriorityAlwaysValid ==
  \A i \in 1..Len(tasks) :
    Stored(tasks, i) => tasks[i].fields.priority \in ValidPriorities

OwnerOperations ==
  {"PATCH /api/tasks/:id/status", "PUT /api/tasks/:id", "DELETE /api/tasks/:id"}

C30_WitnessNoOwner ==
  /\ \E r \in Runs : DidRequest(r, "PUT /api/tasks/:id", 500) /\ runs[r].taskId = 1
  /\ \E r \in Runs : DidRequest(r, "DELETE /api/tasks/:id", 500) /\ runs[r].taskId = 1
  /\ Stored(tasks, 1)
  /\ tasks[1].fields.owner_id = Null
  /\ tasks[1].fields.status = TASK_STATUS.PENDING


(***************************************************************************)
(* C26: once a run has written the task-ID list of its meeting, the list   *)
(* is the ids of the tasks one such run created, one per extracted item    *)
(* and in item order; while a single run has written it, it is that run's  *)
(* list; and whatever the other runs did (failed, or racing on the same    *)
(* meeting) every id in the list names a stored task whose source_meeting  *)
(* is the meeting.                                                         *)
(***************************************************************************)
ListOf(r) == [i \in 1..Len(runs[r].tasks) |-> runs[r].tasks[i].id]

C26_TaskIdListNamesTheRunsTasks ==
  (\E r \in RacingRuns : Linked(r)) =>
    LET list == meetings[1].action_points
    IN /\ \E r \in RacingRuns :
            /\ Linked(r)
            /\ runs[r].pc = "done"
            /\ list = ListOf(r)
            /\ Len(list) = Len(runs[r].actionItems)
            /\ Len(list) >= 1
            /\ \A i \in 1..Len(list) :
                 tasks[list[i]].fields.name = runs[r].actionItems[i].task
       /\ \A r \in RacingRuns :
            (Linked(r) /\ \A q \in RacingRuns \ {r} : ~Linked(q))
              => list = ListOf(r)
       /\ \A k \in 1..Len(list) :
            /\ list[k] \in 1..Len(tasks)
            /\ tasks[list[k]].fields.source_meeting = <<1>>

\* The run that created its tasks second wrote the list, the other run
\* created tasks too and then failed to write its own.
C26_Witness ==
  \E r, q \in RacingRuns :
    /\ runs[r].pc = "done" /\ Linked(r)
    /\ ReturnedIds(r) = {3, 4}
    /\ ReturnedIds(q) = {1, 2}
    /\ runs[q].pc = "failed" /\ runs[q].failedAt = "link"
    /\ meetings[1].action_points = <<3, 4>>


(***************************************************************************)
(* C27: an extraction that returns no action items does not stop the run   *)
(* and is no failure.  The run goes on to the summary and the write of     *)
(* its results; once that write is done the run is complete, with          *)
(* transcript, minutes and summary in the meeting record and no marker;    *)
(* createTasksFromActionItems is never called, no task is created and the  *)
(* task-ID list is never written, so it keeps the value it had.  Such a    *)
(* run fails only if the summary or the write of the results fails.        *)
(***************************************************************************)
ZeroItems(r) ==
  /\ Extracted(r)
  /\ runs[r].itemsType = "array"
  /\ Len(runs[r].actionItems) = 0

C27_ZeroItemsCompletes ==
  \A r \in Runs :
    ZeroItems(r) =>
      /\ ~Has(trace[r], Ev("call", "materialize"))
      /\ ~Has(trace[r], Ev("write", "tasks"))
      /\ ~Has(trace[r], Ev("write", "action_points"))
      /\ MeetingOf(r).action_points = NewMeeting("p1").action_points
      /\ tasks = <<>>
      /\ runs[r].pc \in {"summarizing", "persisting", "done", "marking", "failed"}
      /\ runs[r].pc \in {"marking", "failed"}
           => runs[r].failedAt \in {"summary", "persist"}
      /\ runs[r].pc = "done" <=> Has(trace[r], Ev("write", "results"))
      /\ runs[r].pc = "done" =>
           /\ MeetingOf(r).transcript = runs[r].transcription
           /\ MeetingOf(r).mom = runs[r].mom
           /\ MeetingOf(r).summary = runs[r].emailSummary
           /\ ~Has(trace[r], Ev("call", "marker"))
           /\ ~HasMarker(MeetingOf(r))

\* A run whose extraction returned the empty list is complete.
C27_Witness ==
  \E r \in Runs :
    /\ ZeroItems(r)
    /\ runs[r].answer = Answer("ok", <<>>)
    /\ runs[r].pc = "done"
    /\ MeetingOf(r).summary = runs[r].emailSummary
    /\ MeetingOf(r).summary # Undefined


(***************************************************************************)
(* C28: the write made by the failure handler of a halted run changes the  *)
(* minutes of the meeting record and nothing else: the minutes become      *)
(* "AI processing failed: " followed by the message of the error, and the  *)
(* transcript, the summary, the task-ID list, the title and every other    *)
(* field, like every task, are as they were just before the write.         *)
(***************************************************************************)
C28_MarkerChangesOnlyMinutes ==
  [][\A r \in Runs :
       Wrote(r, "marker") =>
         /\ meetings' =
              <<[meetings[1] EXCEPT !.mom =
                   [t |-> "string",
                    v |-> <<"AI processing failed: ">> \o runs[r].error.message.v]]>>
         /\ \A f \in DOMAIN meetings[1] \ {"mom"} : meetings'[1][f] = meetings[1][f]
         /\ DOMAIN meetings'[1] = DOMAIN meetings[1]
         /\ tasks' = tasks]_vars

\* A run halted after another run had written its results and its task-ID
\* list; the marker is in the minutes and the rest is still there.
C28_Witness ==
  \E r, q \in RacingRuns :
    /\ runs[r].pc = "failed"
    /\ Has(trace[r], Ev("write", "marker"))
    /\ Linked(q)
    /\ HasMarker(meetings[1])
    /\ meetings[1].mom.v = <<"AI processing failed: ">> \o runs[r].error.message.v
    /\ meetings[1].transcript = runs[q].transcription
    /\ meetings[1].summary = runs[q].emailSummary
    /\ meetings[1].action_points = ListOf(q)


(***************************************************************************)
(* C29: when every call returns, every started run ends: it becomes        *)
(* complete (results written and, with one item or more, the task-ID list  *)
(* written) or failed (the marker write was attempted).  A run that has    *)
(* ended stays as it ended, and no run is both complete and failed.        *)
(***************************************************************************)
Completed(r) ==
  /\ Has(trace[r], Ev("write", "results"))
  /\ HasItems(runs[r]) => Linked(r)
MarkerAttempted(r) ==
  \/ Has(trace[r], Ev("write", "marker"))
  \/ Has(trace[r], Ev("fail", "marker"))

C29_EveryRunEnds ==
  \A r \in RacingRuns :
    /\ (runs[r].pc = "transcribing") ~> (runs[r].pc \in {"done", "failed"})
    /\ [](runs[r].pc = "done" => [](runs[r].pc = "done"))
    /\ [](runs[r].pc = "failed" => [](runs[r].pc = "failed"))
    /\ [](runs[r].pc = "done" => (Completed(r) /\ ~MarkerAttempted(r)))
    /\ [](runs[r].pc = "failed" => (MarkerAttempted(r) /\ ~Completed(r)))
    /\ [](~(Completed(r) /\ MarkerAttempted(r)))

\* One run has ended complete with its list written, the other has ended
\* failed after its marker write.
C29_Witness ==
  \E r, q \in RacingRuns :
    /\ runs[r].pc = "done" /\ Completed(r) /\ Linked(r)
    /\ runs[q].pc = "failed" /\ MarkerAttempted(q)
    /\ runs[q].failedAt = "summary"

====
